---- MODULE Spec2Model ----
(***************************************************************************)
(* Country Outliner: the progressive outline animation of src/main.js     *)
(* (Pixi renderer, ticker-driven clock) and of src/unnamed/part_000        *)
(* (v1.2.1, requestAnimationFrame-driven clock).                           *)
(***************************************************************************)
EXTENDS Integers, Sequences, FiniteSets, TLC

(***************************************************************************)
(* Bounds of the model.                                                    *)
(***************************************************************************)
\* the time since the start of a run is followed for MaxElapsed steps of
\* ClockStepMs milliseconds; later instants are not told apart (the longest
\* positive duration of the model has passed by then)
MaxElapsed == 2
\* number of drawCountry calls of main.js in one behaviour
MaxDraws == 2
\* number of requestAnimationFrame handles part_000 hands out in one behaviour
MaxHandles == 4

\* longitudes are taken on a grid of LonStep degrees
LonStep == 10
\* the corners of the bounding boxes handed to intersects lie in 0..MaxCoord
MaxCoord == 2

\* rings of at most MaxRingLen points, polygons of at most MaxRings rings
MaxRingLen == 2
MaxRings == 2
\* draw lengths up to MaxHalfUnits half units
MaxHalfUnits == 24

ClockStepMs == 10 * 1000

\* the longest disputed line handed to drawDashed, in points
MaxDashPoints == 4

(***************************************************************************)
(* JavaScript numbers: exact rationals n/d (d > 0, lowest terms), NaN and  *)
(* +Infinity.  Operators follow the IEEE/ECMAScript rules for the special  *)
(* values: every comparison with NaN is false, Math.min with a NaN         *)
(* argument is NaN, x/0 is NaN for x = 0 and Infinity for x > 0.           *)
(***************************************************************************)
\* (the arguments of the recursive call are bound to their values first)
RECURSIVE Gcd(_, _)
Gcd(a, b) ==
  IF b = 0 THEN a
  ELSE CHOOSE g \in {Gcd(y, x % y) : x \in {a}, y \in {b}} : TRUE

Abs(x) == IF x < 0 THEN -x ELSE x

Rat(n, d) ==
  LET g == Gcd(Abs(n), d)
  IN  [k |-> "num", n |-> n \div g, d |-> d \div g]

Num(n) == [k |-> "num", n |-> n, d |-> 1]
NaN == [k |-> "nan", n |-> 0, d |-> 1]
PosInf == [k |-> "inf", n |-> 1, d |-> 1]
\* a Graphics object on which drawSegments was never called
NotDrawn == [k |-> "none", n |-> 0, d |-> 1]

IsNum(a) == a.k = "num"

\* a < b, a <= b, a > b, a >= b as JavaScript evaluates them
JSLt(a, b) ==
  CASE a.k = "nan" \/ b.k = "nan" -> FALSE
    [] a.k = "inf" -> FALSE
    [] b.k = "inf" -> TRUE
    [] OTHER -> a.n * b.d < b.n * a.d

JSLe(a, b) ==
  CASE a.k = "nan" \/ b.k = "nan" -> FALSE
    [] b.k = "inf" -> TRUE
    [] a.k = "inf" -> FALSE
    [] OTHER -> a.n * b.d <= b.n * a.d

JSGt(a, b) == JSLt(b, a)
JSGe(a, b) == JSLe(b, a)

\* a / b for an integer number of milliseconds a >= 0 and a finite b
JSDiv(a, b) ==
  CASE b.n = 0 /\ a.n = 0 -> NaN
    [] b.n = 0 /\ a.n > 0 -> PosInf
    [] b.n > 0 -> Rat(a.n * b.d, a.d * b.n)
    [] OTHER -> Rat(-(a.n * b.d), a.d * (-b.n))

\* a * b for a finite a >= 0
JSMul(a, b) ==
  CASE b.k = "nan" -> NaN
    [] b.k = "inf" -> IF a.n = 0 THEN NaN ELSE PosInf
    [] OTHER -> Rat(a.n * b.n, a.d * b.d)

\* a + b and a - b for finite a and b
JSAdd(a, b) == Rat(a.n * b.d + b.n * a.d, a.d * b.d)

JSSub(a, b) == Rat(a.n * b.d - b.n * a.d, a.d * b.d)

\* Math.min(a, b)
MathMin(a, b) ==
  CASE a.k = "nan" \/ b.k = "nan" -> NaN
    [] JSLe(a, b) -> a
    [] OTHER -> b

\* Math.hypot(dx, dy) on the integer grid of the model's geometry, where
\* every edge is axis-parallel or a multiple of the 3-4-5 triangle
Hypot(dx, dy) ==
  LET s == dx * dx + dy * dy
  IN  CHOOSE r \in 0..(Abs(dx) + Abs(dy)) : r * r <= s /\ (r + 1) * (r + 1) > s

(***************************************************************************)
(* Themes of main.js (the fields the drawing logic reads).                 *)
(***************************************************************************)
THEMES ==
  [wireframe |-> [hasGlow |-> TRUE, glowSize |-> 4, hasFill |-> FALSE],
   neon      |-> [hasGlow |-> TRUE, glowSize |-> 6, hasFill |-> FALSE],
   blueprint |-> [hasGlow |-> TRUE, glowSize |-> 3, hasFill |-> TRUE]]

ThemeNames == {"wireframe", "neon", "blueprint"}

(***************************************************************************)
(* Geometry.  A ring is a sequence of [lon, lat] pairs, a polygon a        *)
(* sequence of rings, a feature a Polygon or a MultiPolygon.               *)
(***************************************************************************)
Rect(x, y, w, h) ==
  << <<x, y>>, <<x + w, y>>, <<x + w, y + h>>, <<x, y + h>>, <<x, y>> >>

\* the features of countriesData used by the model
CountryFeatures ==
  << \* a closed square of side 10 given as 5 points
     [name |-> "square", type |-> "Polygon",
      coordinates |-> << Rect(0, 0, 10, 10) >>,
      bbox |-> << <<0, 0>>, <<10, 10>> >>],
     \* a mainland of length 100 (outer ring 60, hole 40), an island of
     \* length 30, a part of length 0, a part without segments and a
     \* triangle of length 12
     [name |-> "islands", type |-> "MultiPolygon",
      coordinates |->
        << << Rect(0, 0, 20, 10), Rect(2, 2, 15, 5) >>,
           << Rect(40, 0, 10, 5) >>,
           << << <<60, 0>>, <<60, 0>> >> >>,
           << << <<70, 0>> >>, << >> >>,
           << << <<80, 0>>, <<83, 4>>, <<83, 0>>, <<80, 0>> >> >> >>,
      bbox |-> << <<0, 0>>, <<83, 10>> >>],
     \* a feature all of whose parts have length 0
     [name |-> "dot", type |-> "Polygon",
      coordinates |-> << << <<5, 5>>, <<5, 5>>, <<5, 5>> >> >>,
      bbox |-> << <<5, 5>>, <<5, 5>> >>] >>

FeatureIds == 1..Len(CountryFeatures)
NoFeature == 0

\* the disputed lines of precomputedDisputed, each with its bounding box
PrecomputedDisputed ==
  << [points |-> << <<8, 8>>, <<12, 8>> >>, bbox |-> << <<8, 8>>, <<12, 8>> >>],
     [points |-> << <<90, 0>>, <<90, 9>> >>, bbox |-> << <<90, 0>>, <<90, 9>> >>] >>

\* intersects with boxes that only touch treated as separate
IntersectsTouchSeparate(bboxA, bboxB) ==
  LET aMin == bboxA[1]
      aMax == bboxA[2]
      bMin == bboxB[1]
      bMax == bboxB[2]
  IN  IF bMax[1] <= aMin[1] \/ bMin[1] >= aMax[1] THEN FALSE
      ELSE IF bMax[2] <= aMin[2] \/ bMin[2] >= aMax[2] THEN FALSE
      ELSE TRUE

\* intersects(bboxA, bboxB)
Intersects(bboxA, bboxB) ==
  LET aMin == bboxA[1]
      aMax == bboxA[2]
      bMin == bboxB[1]
      bMax == bboxB[2]
  IN  IF bMax[1] < aMin[1] \/ bMin[1] > aMax[1] THEN FALSE
      ELSE IF bMax[2] < aMin[2] \/ bMin[2] > aMax[2] THEN FALSE
      ELSE TRUE

\* the midpoint as the plain average on both branches
MidpointPlain(minLon, maxLon) == Rat(minLon + maxLon, 2)

\* midpoint: the longitude the rotated projection is centred on, from the
\* longitudes of d3.geoBounds(feature)
Midpoint(minLon, maxLon) ==
  IF maxLon < minLon
  THEN LET midpoint == Rat(minLon + (maxLon + 360), 2)
       IN  IF JSGt(midpoint, Num(180)) THEN JSSub(midpoint, Num(360))
           ELSE midpoint
  ELSE Rat(minLon + maxLon, 2)

\* a property value that is a number, not a string
NumberValue == "42 (a number)"

\* a || b || ... : the first truthy value of a list, its last value if none
RECURSIVE FirstTruthy(_)
FirstTruthy(values) ==
  IF Len(values) = 1 \/ Head(values) # "" THEN Head(values)
  ELSE FirstTruthy(Tail(values))

\* normalize(str) on the names of the model: lower case, no diacritics
Normalize(str) ==
  CASE str = "Russia" -> "russia"
    [] str = "Russian Federation" -> "russian federation"
    [] str = "United States" -> "united states"
    [] str = "UNITED STATES OF AMERICA" -> "united states of america"
    [] str = "France" -> "france"
    [] OTHER -> str

\* str.toString().toUpperCase() on the codes of the model
ToUpperCase(str) ==
  CASE str = "usa" -> "USA"
    [] str = "rus" -> "RUS"
    [] OTHER -> str

\* the default projection, unrotated
EqualEarth == [projectionType |-> "equalEarth", rotate |-> Num(0)]

\* the selection with the Russia rule tested before the USA rule
ChooseProjectionRussiaFirst(props, bounds) ==
  LET rawName == FirstTruthy(<<props.name, props.NAME, props.name_long,
                               props.NAME_LONG, "">>)
      normName == Normalize(rawName)
      isoA3 == ToUpperCase(FirstTruthy(<<props.iso_a3, props.adm0_a3,
                                         props.ADM0_A3, "">>))
  IN  IF rawName = NumberValue THEN EqualEarth
      ELSE IF isoA3 = "RUS" \/ normName = "russia"
              \/ normName = "russian federation"
      THEN [projectionType |-> "equalEarthRotated",
            rotate |-> JSSub(Num(0), Midpoint(bounds[1], bounds[2]))]
      ELSE IF isoA3 = "USA" \/ normName = "united states"
              \/ normName = "united states of america"
      THEN [projectionType |-> "albersUsa", rotate |-> Num(0)]
      ELSE EqualEarth

\* the projection drawCountry selects for a feature with the properties
\* props whose d3.geoBounds longitudes are bounds = <<minLon, maxLon>>;
\* normalize throws a TypeError on a name that is not a string, and the
\* catch block then selects the default
ChooseProjection(props, bounds) ==
  LET rawName == FirstTruthy(<<props.name, props.NAME, props.name_long,
                               props.NAME_LONG, "">>)
      normName == Normalize(rawName)
      isoA3 == ToUpperCase(FirstTruthy(<<props.iso_a3, props.adm0_a3,
                                         props.ADM0_A3, "">>))
  IN  IF rawName = NumberValue THEN EqualEarth
      ELSE IF isoA3 = "USA" \/ normName = "united states"
              \/ normName = "united states of america"
      THEN [projectionType |-> "albersUsa", rotate |-> Num(0)]
      ELSE IF isoA3 = "RUS" \/ normName = "russia"
              \/ normName = "russian federation"
      THEN [projectionType |-> "equalEarthRotated",
            rotate |-> JSSub(Num(0), Midpoint(bounds[1], bounds[2]))]
      ELSE EqualEarth

Padding == 20

\* the fitted projection: the feature is placed inside the viewport with
\* Padding pixels on each side
Projection(coord) == <<coord[1] + Padding, coord[2] + Padding>>

\* polys: the list of polygons of a feature
Polys(feature) ==
  IF feature.type = "Polygon" THEN << feature.coordinates >>
  ELSE IF feature.type = "MultiPolygon" THEN feature.coordinates
  ELSE << >>

\* projRings: every ring of a polygon, projected
ProjRings(polyRings) ==
  [r \in 1..Len(polyRings) |->
     [i \in 1..Len(polyRings[r]) |-> Projection(polyRings[r][i])]]

\* the segments of one ring with a closing segment from the last point back
\* to the first
RingSegmentsClosed(ring) ==
  IF Len(ring) < 2 THEN << >>
  ELSE [i \in 1..Len(ring) |->
          LET j == IF i = Len(ring) THEN 1 ELSE i + 1
          IN  [start |-> ring[i], end |-> ring[j],
               length |-> Hypot(ring[j][1] - ring[i][1], ring[j][2] - ring[i][2]),
               moveTo |-> (i = 1)]]

\* the segments of one ring: consecutive point pairs, the first flagged moveTo
RingSegments(ring) ==
  IF Len(ring) < 2 THEN << >>
  ELSE [i \in 1..(Len(ring) - 1) |->
          [start |-> ring[i], end |-> ring[i + 1],
           length |-> Hypot(ring[i + 1][1] - ring[i][1],
                            ring[i + 1][2] - ring[i][2]),
           moveTo |-> (i = 1)]]

\* the segments of all rings with the moveTo flag kept on the first ring only
RECURSIVE FlattenSegmentsOneFlag(_)
FlattenSegmentsOneFlag(rings) ==
  IF rings = << >> THEN << >>
  ELSE RingSegments(Head(rings)) \o
       [i \in 1..Len(FlattenSegmentsOneFlag(Tail(rings))) |->
          [FlattenSegmentsOneFlag(Tail(rings))[i] EXCEPT !.moveTo = FALSE]]

\* the segments of all rings of a polygon, in ring order
RECURSIVE FlattenSegments(_)
FlattenSegments(rings) ==
  IF rings = << >> THEN << >>
  ELSE RingSegments(Head(rings)) \o FlattenSegments(Tail(rings))

RECURSIVE SumLengths(_)
SumLengths(segments) ==
  IF segments = << >> THEN 0
  ELSE Head(segments).length + SumLengths(Tail(segments))

\* what a projection returns for a coordinate it cannot project
NullPoint == << >>

\* a coordinate outside the three regions of the composite projection
OffComposite == <<30, 40>>

\* projection(coord) for the projection of the given type: d3.geoAlbersUsa
\* returns null outside its composite regions
ProjectCoord(projectionType, coord) ==
  IF projectionType = "albersUsa" /\ coord = OffComposite THEN NullPoint
  ELSE Projection(coord)

\* whether const [x, y] = projection(coord) throws for a coordinate of the
\* rings (destructuring null is a TypeError)
ProjectionThrows(projectionType, polyRings) ==
  \E r \in 1..Len(polyRings) : \E i \in 1..Len(polyRings[r]) :
    ProjectCoord(projectionType, polyRings[r][i]) = NullPoint

\* the segment builder of drawCountry for one polygon: whether it threw, and
\* if not the segments and totalLength it built
BuildSegments(projectionType, polyRings) ==
  IF ProjectionThrows(projectionType, polyRings)
  THEN [threw |-> TRUE, segments |-> << >>, totalLength |-> 0]
  ELSE LET segments == FlattenSegments(ProjRings(polyRings))
       IN  [threw |-> FALSE, segments |-> segments,
            totalLength |-> SumLengths(segments)]

\* processPolygon of part_000 on one ring: the points, the segment lengths
\* and their sum; reading a coordinate of a null point throws a TypeError
ProcessRing(projectionType, ringCoords) ==
  LET pts == [i \in 1..Len(ringCoords) |->
                ProjectCoord(projectionType, ringCoords[i])]
  IN  IF Len(pts) >= 2 /\ \E i \in 1..Len(pts) : pts[i] = NullPoint
      THEN [threw |-> TRUE, points |-> << >>, segments |-> << >>, length |-> 0]
      ELSE LET segments == [i \in 1..(IF Len(pts) = 0 THEN 0 ELSE Len(pts) - 1) |->
                              Hypot(pts[i + 1][1] - pts[i][1],
                                    pts[i + 1][2] - pts[i][2])]
               Sum[i \in 0..Len(segments)] ==
                 IF i = 0 THEN 0 ELSE Sum[i - 1] + segments[i]
           IN  [threw |-> FALSE, points |-> pts, segments |-> segments,
                length |-> Sum[Len(segments)]]

\* processPolygon(coords): the rings it pushes, unless a ring threw
ProcessPolygon(projectionType, coords) ==
  LET rings == [r \in 1..Len(coords) |-> ProcessRing(projectionType, coords[r])]
  IN  [threw |-> \E r \in 1..Len(rings) : rings[r].threw,
       rings |-> IF \E r \in 1..Len(rings) : rings[r].threw THEN << >>
                 ELSE rings]

\* drawLen of animateFrame for one ring
RingDrawLen(progress, ring) == JSMul(progress, Num(ring.length))

\* the segment loop of animateFrame on one ring, from segment i on
RECURSIVE MaskLoop(_, _, _)
MaskLoop(ring, i, remaining) ==
  IF i > Len(ring.segments) THEN << >>
  ELSE LET segLen == ring.segments[i]
           from == ring.points[i]
           to == ring.points[i + 1]
       IN  IF JSGe(remaining, Num(segLen))
           THEN << [op |-> "lineTo", x |-> Num(to[1]), y |-> Num(to[2])] >>
                \o MaskLoop(ring, i + 1, JSSub(remaining, Num(segLen)))
           ELSE LET ratio == IF segLen = 0 THEN Num(0)
                             ELSE IF remaining.k = "nan" THEN NaN
                             ELSE JSDiv(remaining, Num(segLen))
                    At(k) == IF ratio.k = "nan" THEN NaN
                             ELSE JSAdd(Num(from[k]),
                                        JSMul(Num(to[k] - from[k]), ratio))
                IN  << [op |-> "lineTo", x |-> At(1), y |-> At(2)] >>

\* the mask animateFrame draws at a progress: for every ring its drawLen and
\* the moveTo and lineTo commands issued on maskGraphics
AnimateFrameMask(rings, progress) ==
  [r \in 1..Len(rings) |->
     [drawLen |-> RingDrawLen(progress, rings[r]),
      cmds |-> IF Len(rings[r].points) = 0 THEN << >>
               ELSE << [op |-> "moveTo", x |-> Num(rings[r].points[1][1]),
                        y |-> Num(rings[r].points[1][2])] >>
                    \o MaskLoop(rings[r], 1, RingDrawLen(progress, rings[r]))]]

\* polyDatas: one entry per polygon that has at least one segment, with
\* fresh (not yet drawn) graphics objects
RECURSIVE BuildPolyDatas(_, _)
BuildPolyDatas(polys, theme) ==
  IF polys = << >> THEN << >>
  ELSE LET segments == FlattenSegments(ProjRings(Head(polys)))
           rest == BuildPolyDatas(Tail(polys), theme)
       IN  IF Len(segments) = 0 THEN rest
           ELSE << [totalLength |-> SumLengths(segments),
                    lineGraphics |-> NotDrawn,
                    glowGraphics |-> NotDrawn,
                    hasFill |-> theme.hasFill,
                    fillVisible |-> FALSE] >> \o rest

\* maxTotalLength accumulated as a sum over the polygons
RECURSIVE SumTotalLengthOf(_)
SumTotalLengthOf(polyDatas) ==
  IF polyDatas = << >> THEN 0
  ELSE Head(polyDatas).totalLength + SumTotalLengthOf(Tail(polyDatas))

\* maxTotalLength with the comparison of the update reversed
RECURSIVE MaxTotalLengthFlipped(_)
MaxTotalLengthFlipped(polyDatas) ==
  IF polyDatas = << >> THEN 0
  ELSE LET m == MaxTotalLengthFlipped(Tail(polyDatas))
       IN  IF Head(polyDatas).totalLength < m
           THEN Head(polyDatas).totalLength ELSE m

\* maxTotalLength: the largest totalLength among the retained polygons
RECURSIVE MaxTotalLengthOf(_)
MaxTotalLengthOf(polyDatas) ==
  IF polyDatas = << >> THEN 0
  ELSE LET m == MaxTotalLengthOf(Tail(polyDatas))
       IN  IF Head(polyDatas).totalLength > m
           THEN Head(polyDatas).totalLength ELSE m

(***************************************************************************)
(* State of main.js.                                                       *)
(***************************************************************************)
VARIABLES
  themeSelect,    \* themeSelectEl.value
  perfMode,       \* perfModeEl.checked
  animateToggle,  \* animateToggleEl.checked
  animDuration,   \* animDurationEl.value, a string
  currentFeature, \* index into CountryFeatures, NoFeature before a selection
  draws,          \* one record per drawCountry call, in call order: what the
                  \* closures of that call (render, tick) captured and the
                  \* graphics objects it created
  stage,          \* pixiApp.stage.children, bottom first
  fitExtent,      \* the extent the projection of the last draw was fitted to
  viewport,       \* width and height of drawingContainer
  rendererSize    \* width and height of pixiApp.renderer

mainVars == <<themeSelect, perfMode, animateToggle, animDuration,
              currentFeature, draws, stage, fitExtent, viewport, rendererSize>>

\* the sizes drawingContainer takes
Viewports == {<<800, 600>>, <<400, 300>>}

\* the extent drawCountry hands to projection.fitExtent
FitExtent(size) ==
  << <<Padding, Padding>>, <<size[1] - Padding, size[2] - Padding>> >>

\* the values the duration control hands to parseFloat: numeric strings
\* (seconds) and a string that is not a number
DurationValues == {"-10", "0", "10", "abc"}

\* parseFloat(animDurationEl.value)
ParseFloat(str) ==
  CASE str = "-10" -> Num(-10)
    [] str = "0" -> Num(0)
    [] str = "10" -> Num(10)
    [] OTHER -> NaN

DefaultDurationMs == 20000

\* durationMs as drawCountry computes it from the duration control
DurationMs(str) ==
  LET val == ParseFloat(str)
  IN  IF val.k # "nan" THEN JSMul(Num(1000), val) ELSE Num(DefaultDurationMs)

\* the draw length without the cap at the polygon's own length
DrawLengthUncapped(maxTotalLength, progress, totalLength) ==
  JSMul(Num(maxTotalLength), progress)

\* the draw length render uses for one polygon
DrawLength(maxTotalLength, progress, totalLength) ==
  MathMin(JSMul(Num(maxTotalLength), progress), Num(totalLength))

\* the draw length render hands to drawSegments for the glow layer
GlowDrawLength(maxTotalLength, progress, totalLength) ==
  DrawLength(maxTotalLength, progress, totalLength)

\* a fill shown as soon as anything of the outline is drawn
FillVisibleOnStart(drawLength, totalLength) == JSGt(drawLength, Num(0))

\* pd.fillGraphics.visible after render
FillVisible(drawLength, totalLength) == JSGe(drawLength, Num(totalLength))

\* drawCountryFallback: whether the fill path of a polygon of length len is
\* opaque; it is hidden at creation when the draw is animated and len > 0,
\* and shown by the 'end' handler of the stroke transition or, without
\* animation, at once
FallbackFillVisible(animate, maxLength, len, ended) ==
  IF animate /\ maxLength > 0
  THEN IF len > 0 THEN ended ELSE TRUE
  ELSE TRUE

\* render(progress): the graphics of every polygon after the call
Render(polyDatas, maxTotalLength, theme, progress) ==
  [i \in 1..Len(polyDatas) |->
     LET pd == polyDatas[i]
         drawLength == DrawLength(maxTotalLength, progress, pd.totalLength)
     IN  [pd EXCEPT
            !.glowGraphics =
               IF theme.hasGlow
               THEN GlowDrawLength(maxTotalLength, progress, pd.totalLength)
               ELSE @,
            !.lineGraphics = drawLength,
            !.fillVisible = IF pd.hasFill
                            THEN FillVisible(drawLength, pd.totalLength)
                            ELSE @]]

\* graphics.moveTo(x, y) and graphics.lineTo(x, y) as recorded commands
MoveTo(point) == [op |-> "moveTo", x |-> Num(point[1]), y |-> Num(point[2])]

LineTo(x, y) == [op |-> "lineTo", x |-> x, y |-> y]

\* start + (end - start) * t
Lerp(start, end, t) ==
  IF t.k = "nan" THEN NaN ELSE JSAdd(Num(start), JSMul(Num(end - start), t))

\* remaining / seg.length
SegmentRatio(remaining, length) ==
  IF remaining.k = "nan" THEN NaN ELSE JSDiv(remaining, Num(length))

\* the loop of drawSegments that never lowers the remaining budget
RECURSIVE DrawLoopNoSubtract(_, _)
DrawLoopNoSubtract(segments, remaining) ==
  IF segments = << >> THEN << >>
  ELSE LET seg == Head(segments)
           move == IF seg.moveTo THEN << MoveTo(seg.start) >> ELSE << >>
       IN  IF JSLe(remaining, Num(0)) THEN move
           ELSE IF JSGe(remaining, Num(seg.length))
           THEN move \o << LineTo(Num(seg.end[1]), Num(seg.end[2])) >>
                \o DrawLoopNoSubtract(Tail(segments), remaining)
           ELSE LET t == SegmentRatio(remaining, seg.length)
                IN  move
                    \o << LineTo(Lerp(seg.start[1], seg.end[1], t),
                                 Lerp(seg.start[2], seg.end[2], t)) >>
                    \o DrawLoopNoSubtract(Tail(segments), Num(0))

\* the loop of drawSegments over the segments not yet visited, with the
\* remaining budget: the commands it issues.  After a partial segment the
\* budget is 0, and the loop ends at the next segment, after its moveTo
RECURSIVE DrawLoop(_, _)
DrawLoop(segments, remaining) ==
  IF segments = << >> THEN << >>
  ELSE LET seg == Head(segments)
           move == IF seg.moveTo THEN << MoveTo(seg.start) >> ELSE << >>
       IN  IF JSLe(remaining, Num(0)) THEN move
           ELSE IF JSGe(remaining, Num(seg.length))
           THEN move \o << LineTo(Num(seg.end[1]), Num(seg.end[2])) >>
                \o DrawLoop(Tail(segments), JSSub(remaining, Num(seg.length)))
           ELSE LET t == SegmentRatio(remaining, seg.length)
                IN  move
                    \o << LineTo(Lerp(seg.start[1], seg.end[1], t),
                                 Lerp(seg.start[2], seg.end[2], t)) >>
                    \o DrawLoop(Tail(segments), Num(0))

\* the loop of drawSegments leaving only when the budget is below zero
RECURSIVE DrawLoopLateBreak(_, _)
DrawLoopLateBreak(segments, remaining) ==
  IF segments = << >> THEN << >>
  ELSE LET seg == Head(segments)
           move == IF seg.moveTo THEN << MoveTo(seg.start) >> ELSE << >>
       IN  IF JSLt(remaining, Num(0)) THEN move
           ELSE IF JSGe(remaining, Num(seg.length))
           THEN move \o << LineTo(Num(seg.end[1]), Num(seg.end[2])) >>
                \o DrawLoopLateBreak(Tail(segments),
                                     JSSub(remaining, Num(seg.length)))
           ELSE LET t == SegmentRatio(remaining, seg.length)
                IN  move
                    \o << LineTo(Lerp(seg.start[1], seg.end[1], t),
                                 Lerp(seg.start[2], seg.end[2], t)) >>
                    \o DrawLoopLateBreak(Tail(segments), Num(-1))

\* drawSegments that still strokes with a budget of exactly zero
DrawSegmentsLateBreak(segments, drawLength) ==
  DrawLoopLateBreak(segments, drawLength)

\* drawSegments that keeps stroking full segments after the budget is used
DrawSegmentsNoSubtract(segments, drawLength) ==
  DrawLoopNoSubtract(segments, drawLength)

\* drawSegments(graphics, segments, drawLength, ...): the moveTo and lineTo
\* commands issued on the cleared graphics
DrawSegments(segments, drawLength) == DrawLoop(segments, drawLength)

\* the inner loop of drawDashed on what is left of one segment: pos is
\* <<sx, sy>>, dir is <<dx, dy, Math.hypot(dx, dy)>>, st holds
\* remainingSegment, patternIndex (from 1), draw and the commands issued
RECURSIVE DashSegment(_, _, _, _, _)
DashSegment(pos, dir, segmentLength, st, pattern) ==
  IF segmentLength <= 0 THEN st
  ELSE LET step == IF st.remainingSegment <= segmentLength
                   THEN st.remainingSegment ELSE segmentLength
           ex == JSAdd(pos[1], Rat(dir[1] * step, dir[3]))
           ey == JSAdd(pos[2], Rat(dir[2] * step, dir[3]))
           cmd == [op |-> IF st.draw THEN "lineTo" ELSE "moveTo",
                   x |-> ex, y |-> ey]
           left == st.remainingSegment - step
           next == (st.patternIndex % Len(pattern)) + 1
       IN  DashSegment(<<ex, ey>>, dir, segmentLength - step,
                       IF left <= 0
                       THEN [remainingSegment |-> pattern[next],
                             patternIndex |-> next,
                             draw |-> ~st.draw,
                             cmds |-> Append(st.cmds, cmd)]
                       ELSE [st EXCEPT !.remainingSegment = left,
                                       !.cmds = Append(@, cmd)],
                       pattern)

\* the segment loop of drawDashed with the dash restarted at every vertex
RECURSIVE DashFromRestart(_, _, _, _)
DashFromRestart(points, i, st, pattern) ==
  IF i > Len(points) - 1 THEN st.cmds
  ELSE LET dx == points[i + 1][1] - points[i][1]
           dy == points[i + 1][2] - points[i][2]
           done == DashSegment(<<Num(points[i][1]), Num(points[i][2])>>,
                               <<dx, dy, Hypot(dx, dy)>>, Hypot(dx, dy),
                               st, pattern)
       IN  DashFromRestart(points, i + 1,
                           [remainingSegment |-> pattern[1], patternIndex |-> 1,
                            draw |-> TRUE, cmds |-> done.cmds],
                           pattern)

\* the segment loop of drawDashed from segment i on
RECURSIVE DashFrom(_, _, _, _)
DashFrom(points, i, st, pattern) ==
  IF i > Len(points) - 1 THEN st.cmds
  ELSE LET dx == points[i + 1][1] - points[i][1]
           dy == points[i + 1][2] - points[i][2]
       IN  DashFrom(points, i + 1,
                    DashSegment(<<Num(points[i][1]), Num(points[i][2])>>,
                                <<dx, dy, Hypot(dx, dy)>>, Hypot(dx, dy),
                                st, pattern),
                    pattern)

\* drawDashed with the dash phase restarted at every vertex
DrawDashedRestart(points, pattern) ==
  DashFromRestart(points, 1,
                  [remainingSegment |-> pattern[1], patternIndex |-> 1,
                   draw |-> TRUE, cmds |-> << MoveTo(points[1]) >>],
                  pattern)

\* drawDashed(graphics, points, pattern, ...): the commands issued
DrawDashed(points, pattern) ==
  DashFrom(points, 1,
           [remainingSegment |-> pattern[1], patternIndex |-> 1,
            draw |-> TRUE, cmds |-> << MoveTo(points[1]) >>],
           pattern)

\* the dash pattern drawDisputedLines passes
DisputedPattern == <<4, 3>>

\* the disputed lines drawDisputedLines keeps for a feature
RelevantLines(feature) ==
  {i \in 1..Len(PrecomputedDisputed) :
     Intersects(feature.bbox, PrecomputedDisputed[i].bbox)}

\* whether drawCountry takes the animated branch
StartsAnimation(animate, maxTotalLength) == ~(~animate \/ maxTotalLength = 0)

\* a first render at progress 0 on both branches
InitialProgressZero(animated) == Num(0)

\* the progress drawCountry renders before it returns
InitialProgress(animated) == IF animated THEN Num(0) ELSE Num(1)

\* a value no closure captured
NotCaptured == [k |-> "none", n |-> 0, d |-> 1]

\* drawCountry(feature): the record of the new draw.  status is "running"
\* while the tick of the draw is registered on the ticker, "completed" once
\* the tick removed itself, "static" when no tick was ever registered.
NewDraw(f, themeName, animate, durationValue) ==
  LET theme == THEMES[themeName]
      polyDatas == BuildPolyDatas(Polys(CountryFeatures[f]), theme)
      maxTotalLength == MaxTotalLengthOf(polyDatas)
      animated == StartsAnimation(animate, maxTotalLength)
      progress == InitialProgress(animated)
  IN  [feature |-> f,
       themeName |-> themeName,
       animate |-> animate,
       durationMs |-> IF animated THEN DurationMs(durationValue) ELSE NotCaptured,
       elapsed |-> 0,
       maxTotalLength |-> maxTotalLength,
       polyDatas |-> Render(polyDatas, maxTotalLength, theme, progress),
       progress |-> progress,
       status |-> IF animated THEN "running" ELSE "static",
       completions |-> 0,
       live |-> TRUE]

\* what is left of a draw once nothing refers to its closures and graphics
\* any more (it is off the stage and its tick is not registered)
Discarded(dr) ==
  [feature |-> NoFeature, themeName |-> "", animate |-> dr.animate,
   durationMs |-> NotCaptured, elapsed |-> 0, maxTotalLength |-> 0,
   polyDatas |-> << >>, progress |-> NotCaptured,
   status |-> dr.status, completions |-> dr.completions, live |-> FALSE]

\* pixiApp.ticker: the draws whose tick is registered, in registration order
Registered(ds) == {d \in 1..Len(ds) : ds[d].status = "running"}

\* what drawCountry does to the tick of the draw it replaces: nothing, the
\* tick of the earlier draw stays registered
CancelPrevious(dr) == dr

\* the draw whose container is on the stage
OnStage(ds) == Len(ds)

\* the stage with the disputed overlay added before the country container
StageChildrenOverlayFirst(d, f) ==
  (IF RelevantLines(CountryFeatures[f]) = {} THEN << >>
   ELSE << [kind |-> "disputed", draw |-> d,
            lines |-> RelevantLines(CountryFeatures[f])] >>) \o
  << [kind |-> "country", draw |-> d, lines |-> {}] >>

\* pixiApp.stage.children after the draw d of feature f
StageChildren(d, f) ==
  << [kind |-> "country", draw |-> d, lines |-> {}] >> \o
  (IF RelevantLines(CountryFeatures[f]) = {} THEN << >>
   ELSE << [kind |-> "disputed", draw |-> d,
            lines |-> RelevantLines(CountryFeatures[f])] >>)

\* drawCountry(feature); it reads the controls as the event left them
DrawCountry(f) ==
  LET n == Len(draws)
      old == [d \in 1..n |->
                IF d = n
                THEN LET dr == CancelPrevious(draws[d])
                     IN  IF dr.status = "running" THEN dr ELSE Discarded(dr)
                ELSE draws[d]]
  IN  /\ n < MaxDraws
      /\ draws' = Append(old, NewDraw(f, themeSelect', animateToggle',
                                      animDuration'))
      /\ fitExtent' = FitExtent(viewport)
      /\ stage' = StageChildren(n + 1, f)

\* selectCountry(feature)
SelectCountry(f) ==
  /\ UNCHANGED <<themeSelect, perfMode, animateToggle, animDuration>>
  /\ DrawCountry(f)
  /\ currentFeature' = f

\* the redraw at the end of handleControlsChange
RedrawCurrent ==
  IF currentFeature # NoFeature
  THEN DrawCountry(currentFeature)
  ELSE UNCHANGED <<draws, stage, fitExtent>>

\* handleControlsChange after a change of the theme select
ThemeChange(v) ==
  /\ v # themeSelect
  /\ themeSelect' = v
  /\ UNCHANGED <<perfMode, animateToggle, animDuration, currentFeature>>
  /\ RedrawCurrent

\* handleControlsChange after a change of the performance-mode checkbox
PerfModeChange ==
  /\ perfMode' = ~perfMode
  /\ UNCHANGED <<themeSelect, animateToggle, animDuration, currentFeature>>
  /\ RedrawCurrent

\* handleControlsChange after a change of the animate checkbox
AnimateChange ==
  /\ animateToggle' = ~animateToggle
  /\ UNCHANGED <<themeSelect, perfMode, animDuration, currentFeature>>
  /\ RedrawCurrent

\* handleControlsChange after an input event of the duration control
DurationChange(v) ==
  /\ v # animDuration
  /\ animDuration' = v
  /\ UNCHANGED <<themeSelect, perfMode, animateToggle, currentFeature>>
  /\ RedrawCurrent

\* the progress tick passes to render
TickProgress(elapsed, durationMs) ==
  LET t == JSDiv(Num(elapsed), durationMs)
  IN  IF JSGt(t, Num(1)) THEN Num(1) ELSE t

\* a removal test that the clamped progress never passes
TickRemovesStrict(t) == JSGt(t, Num(1))

\* whether tick unregisters itself after rendering progress t
TickRemoves(t) == JSGe(t, Num(1))

\* tick() of a draw: the draw record afterwards (t is bound to its value
\* once, as the local variable of tick is)
TickDraw(dr) ==
  LET Ticked(t) ==
        [dr EXCEPT
           !.polyDatas = Render(dr.polyDatas, dr.maxTotalLength,
                                THEMES[dr.themeName], t),
           !.progress = t,
           !.status = IF TickRemoves(t) THEN "completed" ELSE @,
           !.completions = IF TickRemoves(t) /\ @ < 2 THEN @ + 1 ELSE @]
  IN  CHOOSE r \in {Ticked(t) : t \in {TickProgress(dr.elapsed, dr.durationMs)}} :
        TRUE

\* a ticker update in which the ticks of superseded draws render into the
\* graphics on the stage as well
TickerUpdateShared ==
  /\ Registered(draws) # {}
  /\ draws' = [d \in 1..Len(draws) |->
                 LET own == IF d \in Registered(draws)
                            THEN TickDraw(draws[d]) ELSE draws[d]
                     stale == Registered(draws) \ {OnStage(draws)}
                     shown == IF d = OnStage(draws) /\ stale # {}
                              THEN [own EXCEPT
                                      !.polyDatas =
                                         Render(@, own.maxTotalLength,
                                                THEMES[own.themeName],
                                                TickDraw(draws[CHOOSE x \in stale : TRUE]).progress)]
                              ELSE own
                 IN  IF shown.status # "running" /\ d # OnStage(draws)
                     THEN Discarded(shown) ELSE shown]
  /\ UNCHANGED <<themeSelect, perfMode, animateToggle, animDuration,
                 currentFeature, stage, fitExtent>>

\* one update of the Pixi ticker: every registered tick runs once
TickerUpdate ==
  /\ Registered(draws) # {}
  /\ draws' = [d \in 1..Len(draws) |->
                 IF d \in Registered(draws)
                 THEN LET nd == TickDraw(draws[d])
                      IN  IF nd.status # "running" /\ d # OnStage(draws)
                          THEN Discarded(nd) ELSE nd
                 ELSE draws[d]]
  /\ UNCHANGED <<themeSelect, perfMode, animateToggle, animDuration,
                 currentFeature, stage, fitExtent>>

\* performance.now() advances by one step: so does now - startTime of every
\* registered tick
AdvanceClock ==
  /\ \E d \in Registered(draws) : draws[d].elapsed < MaxElapsed * ClockStepMs
  /\ draws' = [d \in 1..Len(draws) |->
                 IF d \in Registered(draws)
                    /\ draws[d].elapsed < MaxElapsed * ClockStepMs
                 THEN [draws[d] EXCEPT !.elapsed = @ + ClockStepMs]
                 ELSE draws[d]]
  /\ UNCHANGED <<themeSelect, perfMode, animateToggle, animDuration,
                 currentFeature, stage, fitExtent>>

\* the ResizeObserver callback after drawingContainer took a new size
Resize(size) ==
  /\ size # viewport
  /\ viewport' = size
  /\ rendererSize' = size
  /\ UNCHANGED <<themeSelect, perfMode, animateToggle, animDuration,
                 currentFeature, draws, stage, fitExtent>>

MainInit ==
  /\ themeSelect = "wireframe"
  /\ perfMode = FALSE
  /\ animateToggle = TRUE
  /\ animDuration = "10"
  /\ currentFeature = NoFeature
  /\ draws = << >>
  /\ stage = << >>
  /\ fitExtent = << >>
  /\ viewport = <<800, 600>>
  /\ rendererSize = <<800, 600>>

(***************************************************************************)
(* part_000 (v1.2.1): one stroke graphic revealed through a mask that      *)
(* animateFrame redraws on every animation frame.                          *)
(***************************************************************************)
VARIABLES
  p0Now,            \* performance.now(), in steps of ClockStepMs, always > 0
  featuresLoaded,   \* whether state.features holds the loaded data set
  animationFrame,   \* state.animationFrame: a handle, NullHandle for null
  startTime,        \* state.startTime, NullTime for null
  pendingFrames,    \* the requestAnimationFrame callbacks the browser holds
  nextHandle,       \* the next handle requestAnimationFrame returns
  stateAnimate,     \* state.animate
  stateDuration,    \* state.duration, a number
  stateTheme,       \* the name of state.theme
  stateFeature,     \* the name of state.currentFeature, "" for null
  strokeMask,       \* whether strokeG.mask is set to the mask graphics
  maskProgress,     \* the progress the mask was last drawn with
  fillVisible,      \* state.fillContainer.visible
  cancelOnly        \* number of drawCountry calls in a row that returned
                    \* right after the cancel step (counted up to 2)

p0Vars == <<p0Now, featuresLoaded, animationFrame, startTime, pendingFrames,
            nextHandle, stateAnimate, stateDuration, stateTheme, stateFeature,
            strokeMask, maskProgress, fillVisible, cancelOnly>>

NullHandle == 0
NullTime == -1

\* the longest time the clock of part_000 is followed, in steps
P0MaxNow == 3

\* aliasMapping (the entries the model uses); the last canonical name is
\* spelled with a typographic apostrophe (U+2019), written here as ^
AliasKeys == {"usa", "russia", "ivory coast"}

AliasMapping ==
  [key \in AliasKeys |->
     CASE key = "usa" -> "United States of America"
       [] key = "russia" -> "Russia"
       [] key = "ivory coast" -> "Cote d^Ivoire"]

\* the names of the features of the loaded data set, which spells the last
\* one with a plain apostrophe
LoadedNames == {"United States of America", "Russia", "France", "Cote d'Ivoire"}

\* state.features as names: empty until the data set arrives
FeatureNames(loaded) == IF loaded THEN LoadedNames ELSE {}

\* what the user can type into the country input, trimmed and normalized
CountryInputs == {"usa", "ivory coast", "france", "atlantis"}

\* resolveCountryName(input): a canonical name, "" for null
ResolveCountryName(input, loaded) ==
  IF input \in AliasKeys THEN AliasMapping[input]
  ELSE IF input = "france" /\ "France" \in FeatureNames(loaded) THEN "France"
  ELSE ""

\* the values of the duration slider
SliderValues == {"10", "0"}

\* parseInt(durationSlider.value, 10) * 1000
SliderDuration(str) ==
  CASE str = "10" -> Num(10 * 1000)
    [] str = "0" -> Num(0)
    [] OTHER -> NaN

\* the clock of the animation: handle, start time and pending callbacks
P0Clock == [animationFrame |-> animationFrame, startTime |-> startTime,
            pending |-> pendingFrames]

\* a cancel step that forgets the callback the browser holds
CancelStepLeaky(c) ==
  [animationFrame |-> NullHandle, startTime |-> NullTime, pending |-> c.pending]

\* the cancel step at the top of drawCountry
CancelStep(c) ==
  [animationFrame |-> NullHandle,
   startTime |-> NullTime,
   pending |-> IF c.animationFrame # NullHandle
               THEN c.pending \ {c.animationFrame}
               ELSE c.pending]

\* the progress animateFrame computes; the call drawCountry makes passes no
\* argument, so now is undefined and the elapsed time is NaN
FrameProgress(hasNow, time, start, duration) ==
  LET elapsed == IF hasNow THEN Num((time - start) * ClockStepMs) ELSE NaN
      ratio == IF elapsed.k = "nan" \/ duration.k = "nan" THEN NaN
               ELSE JSDiv(elapsed, duration)
  IN  MathMin(ratio, Num(1))

\* animateFrame without the cancel of the frame it requested when the
\* progress has reached 1
AnimateFrameKeepsFrame(c, hasNow, disp) ==
  LET start == IF c.startTime = NullTime THEN p0Now ELSE c.startTime
      progress == FrameProgress(hasNow, p0Now, start, stateDuration')
      done == JSGe(progress, Num(1))
  IN  /\ nextHandle <= MaxHandles
      /\ nextHandle' = nextHandle + 1
      /\ animationFrame' = nextHandle
      /\ pendingFrames' = c.pending \cup {nextHandle}
      /\ startTime' = start
      /\ maskProgress' = progress
      /\ strokeMask' = IF done THEN FALSE ELSE disp.mask
      /\ fillVisible' = IF done /\ stateTheme' = "blueprint" THEN TRUE
                        ELSE disp.fill

\* animateFrame(now) on the clock c, with the mask and the fill as disp; now
\* is undefined when hasNow is FALSE
AnimateFrame(c, hasNow, disp) ==
  LET start == IF c.startTime = NullTime THEN p0Now ELSE c.startTime
      progress == FrameProgress(hasNow, p0Now, start, stateDuration')
      done == JSGe(progress, Num(1))
  IN  /\ nextHandle <= MaxHandles
      /\ nextHandle' = nextHandle + 1
      /\ animationFrame' = IF done THEN NullHandle ELSE nextHandle
      /\ pendingFrames' = IF done THEN c.pending ELSE c.pending \cup {nextHandle}
      /\ startTime' = start
      /\ maskProgress' = progress
      /\ strokeMask' = IF done THEN FALSE ELSE disp.mask
      /\ fillVisible' = IF done /\ stateTheme' = "blueprint" THEN TRUE
                        ELSE disp.fill

\* drawCountry(name), reading the state as the event handler left it
P0DrawCountry(name) ==
  LET c == CancelStep(P0Clock)
  IN  IF name \notin FeatureNames(featuresLoaded)
      THEN \* return right after the cancel step
           /\ animationFrame' = c.animationFrame
           /\ startTime' = c.startTime
           /\ pendingFrames' = c.pending
           /\ cancelOnly' = IF cancelOnly < 2 THEN cancelOnly + 1 ELSE cancelOnly
           /\ UNCHANGED <<nextHandle, stateFeature, strokeMask, maskProgress,
                          fillVisible>>
      ELSE /\ stateFeature' = name
           /\ cancelOnly' = 0
           /\ IF stateAnimate'
              THEN AnimateFrame([c EXCEPT !.startTime = p0Now], FALSE,
                                [mask |-> TRUE, fill |-> FALSE])
              ELSE /\ animationFrame' = c.animationFrame
                   /\ startTime' = c.startTime
                   /\ pendingFrames' = c.pending
                   /\ maskProgress' = NotDrawn
                   /\ strokeMask' = FALSE
                   /\ fillVisible' = (stateTheme' = "blueprint")
                   /\ UNCHANGED nextHandle

\* onCountrySelected
OnCountrySelected(input) ==
  /\ UNCHANGED <<p0Now, featuresLoaded, stateAnimate, stateDuration, stateTheme>>
  /\ IF ResolveCountryName(input, featuresLoaded) = ""
     THEN UNCHANGED <<animationFrame, startTime, pendingFrames, nextHandle,
                      stateFeature, strokeMask, maskProgress, fillVisible,
                      cancelOnly>>
     ELSE P0DrawCountry(ResolveCountryName(input, featuresLoaded))

\* the redraw at the end of the control handlers and of onResize
P0Redraw ==
  IF stateFeature # ""
  THEN P0DrawCountry(stateFeature)
  ELSE UNCHANGED <<animationFrame, startTime, pendingFrames, nextHandle,
                   stateFeature, strokeMask, maskProgress, fillVisible,
                   cancelOnly>>

\* onThemeChange
OnThemeChange(v) ==
  /\ v # stateTheme
  /\ stateTheme' = v
  /\ UNCHANGED <<p0Now, featuresLoaded, stateAnimate, stateDuration>>
  /\ P0Redraw

\* onAnimateToggle
OnAnimateToggle ==
  /\ stateAnimate' = ~stateAnimate
  /\ UNCHANGED <<p0Now, featuresLoaded, stateDuration, stateTheme>>
  /\ P0Redraw

\* onDurationChange
OnDurationChange(v) ==
  /\ stateDuration' = SliderDuration(v)
  /\ stateDuration' # stateDuration
  /\ UNCHANGED <<p0Now, featuresLoaded, stateAnimate, stateTheme>>
  /\ P0Redraw

\* onResize, onAccentChange and onPerfToggle: a redraw of the current feature
OnResize ==
  /\ stateFeature # ""
  /\ UNCHANGED <<p0Now, featuresLoaded, stateAnimate, stateDuration, stateTheme>>
  /\ P0Redraw

\* the browser runs a pending animation frame callback
FrameCallback(h) ==
  /\ h \in pendingFrames
  /\ UNCHANGED <<p0Now, featuresLoaded, stateAnimate, stateDuration, stateTheme,
                 stateFeature, cancelOnly>>
  /\ AnimateFrame([P0Clock EXCEPT !.pending = @ \ {h}], TRUE,
                  [mask |-> strokeMask, fill |-> fillVisible])

\* the data set arrives: state.features is filled
FeaturesLoad ==
  /\ ~featuresLoaded
  /\ featuresLoaded' = TRUE
  /\ UNCHANGED <<p0Now, animationFrame, startTime, pendingFrames, nextHandle,
                 stateAnimate, stateDuration, stateTheme, stateFeature,
                 strokeMask, maskProgress, fillVisible, cancelOnly>>

\* performance.now() advances
P0AdvanceClock ==
  /\ p0Now < P0MaxNow
  /\ p0Now' = p0Now + 1
  /\ UNCHANGED <<featuresLoaded, animationFrame, startTime, pendingFrames,
                 nextHandle, stateAnimate, stateDuration, stateTheme,
                 stateFeature, strokeMask, maskProgress, fillVisible, cancelOnly>>

P0Init ==
  /\ p0Now = 1
  /\ featuresLoaded = FALSE
  /\ animationFrame = NullHandle
  /\ startTime = NullTime
  /\ pendingFrames = {}
  /\ nextHandle = 1
  /\ stateAnimate = TRUE
  /\ stateDuration = Num(DefaultDurationMs)
  /\ stateTheme = "neon"
  /\ stateFeature = ""
  /\ strokeMask = FALSE
  /\ maskProgress = NotDrawn
  /\ fillVisible = FALSE
  /\ cancelOnly = 0

(***************************************************************************)
(* The functions of main.js that keep no state, each called on arguments   *)
(* drawn from bounded sets: call holds the arguments of the call in        *)
(* progress, result what it returned.                                      *)
(***************************************************************************)
VARIABLES
  call,    \* the function called last and its arguments
  result   \* the value it returned

fnVars == <<call, result>>

\* the longitudes d3.geoBounds can return, on the grid
Longitudes == {x \in -180..180 : x % LonStep = 0}

\* bounding boxes [[minX, minY], [maxX, maxY]] as d3.geoBounds returns them;
\* the box of a feature that crosses the antimeridian has minX > maxX
Boxes ==
  {<< <<x1, y1>>, <<x2, y2>> >> :
     x1 \in 0..MaxCoord, y1 \in 0..MaxCoord, x2 \in 0..MaxCoord, y2 \in 0..MaxCoord}

\* feature.properties: the fields drawCountry reads, "" for a missing one
Properties ==
  [name : {"", "Russia", "United States", NumberValue},
   NAME : {"", "UNITED STATES OF AMERICA"},
   name_long : {"", "Russian Federation"},
   NAME_LONG : {"", "France"},
   iso_a3 : {"", "usa", "RUS"},
   adm0_a3 : {"", "USA", "FRA"},
   ADM0_A3 : {"", "RUS"}]

\* the longitudes <<minLon, maxLon>> of d3.geoBounds(feature): a feature
\* that crosses the antimeridian and one that does not
FeatureBounds == {<<20, -170>>, <<-120, -70>>}

\* the selection of the projection in drawCountry
ProjectionCall(props, bounds) ==
  /\ call.fn = "none"
  /\ call' = [fn |-> "projection", props |-> props, bounds |-> bounds]
  /\ result' = ChooseProjection(props, bounds)

\* the coordinates of the rings handed to the segment builder
RingPoints == {<<0, 0>>, <<3, 4>>}

\* the sequences of length 0..n over S
RECURSIVE SeqsUpTo(_, _)
SeqsUpTo(S, n) ==
  IF n = 0 THEN {<< >>}
  ELSE LET shorter == SeqsUpTo(S, n - 1)
       IN  shorter \cup {Append(q, x) : q \in shorter, x \in S}

\* rings of at most MaxRingLen points
Rings == SeqsUpTo(RingPoints, MaxRingLen)

\* polygons of 1..MaxRings such rings, and the polygons of the features
Polygons ==
  (SeqsUpTo(Rings, MaxRings) \ {<< >>})
  \cup UNION {{Polys(CountryFeatures[f])[k] :
                 k \in 1..Len(Polys(CountryFeatures[f]))} : f \in FeatureIds}

\* polygons of a feature of the USA with a coordinate that the composite
\* projection cannot project
OffCompositePolygons ==
  { << << <<0, 0>>, OffComposite, <<3, 4>> >> >>,
    << << OffComposite >> >>,
    << << <<0, 0>>, <<3, 4>> >>, << <<3, 4>>, OffComposite >> >> }

\* the draw lengths handed to drawSegments: the multiples of 1/2 up to
\* MaxHalfUnits / 2, and lengths beyond every total
DrawLengths == {Rat(k, 2) : k \in 0..MaxHalfUnits} \cup {Num(70), Num(1000)}

\* the segment builder of drawCountry on one polygon
BuildSegmentsCall(projectionType, polyRings) ==
  /\ call.fn = "none"
  /\ call' = [fn |-> "buildSegments", projectionType |-> projectionType,
              polyRings |-> polyRings]
  /\ result' = BuildSegments(projectionType, polyRings)

\* processPolygon of part_000 on one polygon
ProcessPolygonCall(projectionType, coords) ==
  /\ call.fn = "none"
  /\ call' = [fn |-> "processPolygon", projectionType |-> projectionType,
              polyRings |-> coords]
  /\ result' = ProcessPolygon(projectionType, coords)

\* drawSegments on the segments built for one polygon
DrawSegmentsCall(polyRings, drawLength) ==
  /\ call.fn = "none"
  /\ call' = [fn |-> "drawSegments", polyRings |-> polyRings,
              segments |-> FlattenSegments(ProjRings(polyRings)),
              drawLength |-> drawLength]
  /\ result' = DrawSegments(FlattenSegments(ProjRings(polyRings)), drawLength)

\* the midpoint computation of the rotated projection
MidpointCall(minLon, maxLon) ==
  /\ call.fn = "none"
  /\ call' = [fn |-> "midpoint", minLon |-> minLon, maxLon |-> maxLon]
  /\ result' = Midpoint(minLon, maxLon)

\* intersects(bboxA, bboxB)
IntersectsCall(bboxA, bboxB) ==
  /\ call.fn = "none"
  /\ call' = [fn |-> "intersects", bboxA |-> bboxA, bboxB |-> bboxB]
  /\ result' = Intersects(bboxA, bboxB)

\* the progresses at which the mask of part_000 is drawn
MaskProgresses == {Num(0), Rat(1, 2), Num(1), NaN}

\* the mask loop of animateFrame on the rings of one polygon
AnimateFrameMaskCall(coords, progress) ==
  /\ call.fn = "none"
  /\ call' = [fn |-> "animateFrameMask",
              rings |-> ProcessPolygon("equalEarth", coords).rings,
              progress |-> progress]
  /\ result' = AnimateFrameMask(ProcessPolygon("equalEarth", coords).rings,
                                progress)

\* boxes d3.geoBounds returns for features that cross the antimeridian:
\* the west longitude is greater than the east one
AntimeridianBounds ==
  { << <<80, -5>>, <<-170, 20>> >>, << <<170, 0>>, <<-170, 10>> >> }

\* the filter of drawDisputedLines for a feature with the box featureBbox
DrawDisputedLinesCall(featureBbox) ==
  /\ call.fn = "none"
  /\ call' = [fn |-> "drawDisputedLines", featureBbox |-> featureBbox]
  /\ result' = RelevantLines([bbox |-> featureBbox])

\* the projected points of disputed lines: the corners of a 5 by 9 box
DashPoints == {<<0, 0>>, <<5, 0>>, <<5, 9>>, <<0, 9>>}

\* polylines of 1..MaxDashPoints such points whose edges are axis-parallel
DashedPolylines ==
  {q \in SeqsUpTo(DashPoints, MaxDashPoints) \ {<< >>} :
     \A i \in 1..(Len(q) - 1) : q[i][1] = q[i + 1][1] \/ q[i][2] = q[i + 1][2]}

\* drawDashed on the projected points of one disputed line
DrawDashedCall(points) ==
  /\ call.fn = "none"
  /\ call' = [fn |-> "drawDashed", points |-> points]
  /\ result' = DrawDashed(points, DisputedPattern)

\* the caller is done with the result
FnReturn ==
  /\ call.fn # "none"
  /\ call' = [fn |-> "none"]
  /\ result' = FALSE

FnInit ==
  /\ call = [fn |-> "none"]
  /\ result = FALSE

(***************************************************************************)
(* Specifications.  The two programs do not share state: each              *)
(* specification runs one of them and leaves the other at its initial      *)
(* state.                                                                  *)
(***************************************************************************)
vars == <<mainVars, p0Vars, fnVars>>

Init == MainInit /\ P0Init /\ FnInit

\* the ticker runs its callbacks on a frame
Ticker == TickerUpdate /\ UNCHANGED <<viewport, rendererSize, p0Vars, fnVars>>

\* time passes between two frames
Clock == AdvanceClock /\ UNCHANGED <<viewport, rendererSize, p0Vars, fnVars>>

\* main.js
Next ==
  \/ \E f \in FeatureIds : SelectCountry(f) /\ UNCHANGED <<viewport, rendererSize, p0Vars, fnVars>>
  \/ \E v \in ThemeNames : ThemeChange(v) /\ UNCHANGED <<viewport, rendererSize, p0Vars, fnVars>>
  \/ PerfModeChange /\ UNCHANGED <<viewport, rendererSize, p0Vars, fnVars>>
  \/ AnimateChange /\ UNCHANGED <<viewport, rendererSize, p0Vars, fnVars>>
  \/ \E v \in DurationValues : DurationChange(v) /\ UNCHANGED <<viewport, rendererSize, p0Vars, fnVars>>
  \/ Ticker
  \/ Clock
  \/ \E size \in Viewports : Resize(size) /\ UNCHANGED <<p0Vars, fnVars>>

Spec == Init /\ [][Next]_vars

\* the ticker fires on every frame and the clock keeps advancing
FairSpec == Spec /\ WF_vars(Ticker) /\ WF_vars(Clock)

\* part_000
P0Next ==
  \/ \E input \in CountryInputs : OnCountrySelected(input) /\ UNCHANGED <<mainVars, fnVars>>
  \/ \E v \in {"neon", "blueprint"} : OnThemeChange(v) /\ UNCHANGED <<mainVars, fnVars>>
  \/ OnAnimateToggle /\ UNCHANGED <<mainVars, fnVars>>
  \/ \E v \in SliderValues : OnDurationChange(v) /\ UNCHANGED <<mainVars, fnVars>>
  \/ OnResize /\ UNCHANGED <<mainVars, fnVars>>
  \/ \E h \in pendingFrames : FrameCallback(h) /\ UNCHANGED <<mainVars, fnVars>>
  \/ FeaturesLoad /\ UNCHANGED <<mainVars, fnVars>>
  \/ P0AdvanceClock /\ UNCHANGED <<mainVars, fnVars>>

SpecP0 == Init /\ [][P0Next]_vars

\* the functions, called in any order on any arguments
FnNext ==
  \/ /\ call.fn = "none"
     /\ \E minLon, maxLon \in Longitudes :
          MidpointCall(minLon, maxLon) /\ UNCHANGED <<mainVars, p0Vars>>
  \/ /\ call.fn = "none"
     /\ \E bboxA, bboxB \in Boxes :
          IntersectsCall(bboxA, bboxB) /\ UNCHANGED <<mainVars, p0Vars>>
  \/ /\ call.fn = "none"
     /\ \E props \in Properties, bounds \in FeatureBounds :
          ProjectionCall(props, bounds) /\ UNCHANGED <<mainVars, p0Vars>>
  \/ /\ call.fn = "none"
     /\ \E projectionType \in {"equalEarth", "albersUsa"},
           polyRings \in Polygons \cup OffCompositePolygons :
          BuildSegmentsCall(projectionType, polyRings)
          /\ UNCHANGED <<mainVars, p0Vars>>
  \/ /\ call.fn = "none"
     /\ \E polyRings \in Polygons, drawLength \in DrawLengths :
          DrawSegmentsCall(polyRings, drawLength) /\ UNCHANGED <<mainVars, p0Vars>>
  \/ /\ call.fn = "none"
     /\ \E projectionType \in {"equalEarth", "albersUsa"},
           coords \in Polygons \cup OffCompositePolygons :
          ProcessPolygonCall(projectionType, coords)
          /\ UNCHANGED <<mainVars, p0Vars>>
  \/ /\ call.fn = "none"
     /\ \E coords \in Polygons, progress \in MaskProgresses :
          AnimateFrameMaskCall(coords, progress)
          /\ UNCHANGED <<mainVars, p0Vars>>
  \/ /\ call.fn = "none"
     /\ \E featureBbox \in AntimeridianBounds
                           \cup {CountryFeatures[f].bbox : f \in FeatureIds} :
          DrawDisputedLinesCall(featureBbox) /\ UNCHANGED <<mainVars, p0Vars>>
  \/ /\ call.fn = "none"
     /\ \E points \in DashedPolylines :
          DrawDashedCall(points) /\ UNCHANGED <<mainVars, p0Vars>>
  \/ FnReturn /\ UNCHANGED <<mainVars, p0Vars>>

SpecFn == Init /\ [][FnNext]_vars

(***************************************************************************)
(* Properties of main.js.                                                  *)
(***************************************************************************)
Live(d) == d \in 1..Len(draws) /\ draws[d].live

InUnit(p) == IsNum(p) /\ 0 <= p.n /\ p.n <= p.d

SetMax(S) == IF S = {} THEN 0 ELSE CHOOSE m \in S : \A x \in S : x <= m

\* the polygons of a feature that have at least one segment
RetainedParts(f) ==
  LET polys == Polys(CountryFeatures[f])
  IN  {k \in 1..Len(polys) : \E r \in 1..Len(polys[k]) : Len(polys[k][r]) >= 2}

\* min(mx * p, total) for a progress p, NaN for a progress that is NaN
ExpectedLength(mx, p, total) ==
  IF IsNum(p)
  THEN IF mx * p.n <= total * p.d THEN Rat(mx * p.n, p.d) ELSE Num(total)
  ELSE NaN

\* a polygon whose glow and outline are both drawn at length len
DrawnAt(pd, len) == pd.lineGraphics = len /\ pd.glowGraphics = len

\* C1: at most one tick callback of drawCountry is registered on the ticker
\* at any time.
C1_AtMostOneTick == Cardinality(Registered(draws)) <= 1

\* C2: after every render the glow layer and the outline layer of every
\* retained part are drawn with min(maxTotalLength * progress, totalLength),
\* maxTotalLength being the largest totalLength among the retained parts.
C2_SharedDrawLength ==
  \A d \in 1..Len(draws) : draws[d].live =>
    LET pds == draws[d].polyDatas
        mx == SetMax({pds[j].totalLength : j \in 1..Len(pds)})
    IN  /\ Len(pds) = Cardinality(RetainedParts(draws[d].feature))
        /\ \A i \in 1..Len(pds) :
             DrawnAt(pds[i], ExpectedLength(mx, draws[d].progress, pds[i].totalLength))

C2_Witness ==
  \E d \in 1..Len(draws) :
    /\ draws[d].live
    /\ draws[d].progress = Rat(1, 2)
    /\ Len(draws[d].polyDatas) = 4
    /\ DrawnAt(draws[d].polyDatas[1], Num(50))
    /\ DrawnAt(draws[d].polyDatas[2], Num(30))
    /\ DrawnAt(draws[d].polyDatas[4], Num(12))

\* C3: for a progress in [0,1] the draw length of a part never exceeds the
\* part's totalLength, and of two renderings of the same feature the one with
\* the smaller progress has the smaller or equal draw length on every part.
C3_BoundedMonotone ==
  /\ \A d \in 1..Len(draws) :
       draws[d].live /\ InUnit(draws[d].progress) =>
         \A i \in 1..Len(draws[d].polyDatas) :
           LET pd == draws[d].polyDatas[i]
           IN  /\ JSLe(pd.lineGraphics, Num(pd.totalLength))
               /\ JSLe(pd.glowGraphics, Num(pd.totalLength))
  /\ \A d1, d2 \in 1..Len(draws) :
       ( /\ draws[d1].live /\ draws[d2].live
         /\ draws[d1].feature = draws[d2].feature
         /\ InUnit(draws[d1].progress) /\ InUnit(draws[d2].progress)
         /\ JSLe(draws[d1].progress, draws[d2].progress) ) =>
         \A i \in 1..Len(draws[d1].polyDatas) :
           /\ JSLe(draws[d1].polyDatas[i].lineGraphics,
                   draws[d2].polyDatas[i].lineGraphics)
           /\ JSLe(draws[d1].polyDatas[i].glowGraphics,
                   draws[d2].polyDatas[i].glowGraphics)

C3_Witness ==
  \E d1, d2 \in 1..Len(draws) :
    /\ draws[d1].live /\ draws[d2].live
    /\ draws[d1].feature = 2 /\ draws[d2].feature = 2
    /\ draws[d1].progress = Num(1) /\ draws[d2].progress = Rat(1, 2)
    /\ draws[d1].polyDatas[1].lineGraphics = Num(100)
    /\ draws[d2].polyDatas[1].lineGraphics = Num(50)
    /\ draws[d2].polyDatas[2].lineGraphics = Num(30)

\* C4: at progress exactly 1 the draw length of every part equals the
\* part's totalLength.
C4_FullAtOne ==
  \A d \in 1..Len(draws) :
    draws[d].live /\ draws[d].progress = Num(1) =>
      \A i \in 1..Len(draws[d].polyDatas) :
        DrawnAt(draws[d].polyDatas[i], Num(draws[d].polyDatas[i].totalLength))

C4_Witness ==
  \E d \in 1..Len(draws) :
    /\ draws[d].live
    /\ draws[d].status = "completed"
    /\ draws[d].progress = Num(1)
    /\ Len(draws[d].polyDatas) = 4
    /\ draws[d].polyDatas[1].lineGraphics = Num(100)
    /\ draws[d].polyDatas[2].lineGraphics = Num(30)
    /\ draws[d].polyDatas[3].lineGraphics = Num(0)

\* a part is fully drawn when its draw length has reached its totalLength
FullyDrawn(pd) == JSGe(pd.lineGraphics, Num(pd.totalLength))

\* C5: in every frame of a run a part of length L is fully drawn when the
\* progress is at least L / maxTotalLength, and a part of length 0 is fully
\* drawn in every frame.
C5_CompleteFromThreshold ==
  \A d \in 1..Len(draws) :
    draws[d].live /\ draws[d].animate /\ draws[d].status # "static" =>
      \A i \in 1..Len(draws[d].polyDatas) :
        LET pd == draws[d].polyDatas[i]
        IN  /\ JSGe(JSMul(Num(draws[d].maxTotalLength), draws[d].progress),
                    Num(pd.totalLength)) => FullyDrawn(pd)
            /\ pd.totalLength = 0 => FullyDrawn(pd)

\* C6: the first tick of a run whose progress is >= 1 renders the full
\* reveal and unregisters the tick; a run is finalized once and renders
\* nothing afterwards.
C6_FinalizedOnce ==
  [][\A d \in 1..Len(draws) :
       /\ draws[d].status = "running" /\ draws'[d].status = "running" =>
            /\ ~JSGe(draws'[d].progress, Num(1))
            /\ draws'[d].completions = 0
       /\ draws[d].status = "running" /\ draws'[d].status # "running" =>
            /\ draws'[d].status = "completed"
            /\ draws'[d].completions = 1
            /\ draws'[d].live =>
                 /\ draws'[d].progress = Num(1)
                 /\ \A i \in 1..Len(draws'[d].polyDatas) :
                      DrawnAt(draws'[d].polyDatas[i],
                              Num(draws'[d].polyDatas[i].totalLength))
       /\ draws[d].status = "completed" =>
            /\ draws'[d].status = "completed"
            /\ draws'[d].completions = 1
            /\ draws'[d].live =>
                 /\ draws'[d].progress = draws[d].progress
                 /\ draws'[d].polyDatas = draws[d].polyDatas]_vars

C6_Witness ==
  \E d \in 1..Len(draws) :
    /\ draws[d].live
    /\ draws[d].status = "completed"
    /\ draws[d].completions = 1
    /\ draws[d].elapsed = 2 * ClockStepMs
    /\ draws[d].durationMs = Num(10000)

\* C7: every animation run started by drawCountry eventually reaches
\* Completed, for every value of the duration control.
C7_EveryRunCompletes ==
  \A d \in 1..MaxDraws :
    (d \in Registered(draws)) ~>
      (d \in 1..Len(draws) /\ draws[d].status = "completed")

\* C8: the progress passed to render on every tick of a run lies in [0,1].
C8_ProgressInUnit ==
  \A d \in 1..Len(draws) :
    draws[d].live /\ draws[d].status # "static" => InUnit(draws[d].progress)

\* C9: with the animate toggle off no tick is registered for the draw, and
\* the graphics of the draw equal the graphics of the completed animated run
\* of the same feature and theme that it replaces on the stage.
C9_StaticEqualsCompleted ==
  [][/\ \A d \in 1..Len(draws') :
          ~draws'[d].animate =>
             draws'[d].status = "static" /\ draws'[d].completions = 0
     /\ ( /\ Len(draws) >= 1
          /\ Len(draws') = Len(draws) + 1
          /\ draws[OnStage(draws)].status = "completed"
          /\ ~draws'[OnStage(draws')].animate
          /\ draws'[OnStage(draws')].feature = draws[OnStage(draws)].feature
          /\ draws'[OnStage(draws')].themeName = draws[OnStage(draws)].themeName )
        => draws'[OnStage(draws')].polyDatas = draws[OnStage(draws)].polyDatas]_vars

C9_Witness ==
  /\ Len(draws) = 2
  /\ draws[1].status = "completed" /\ draws[1].animate
  /\ ~draws[2].animate /\ draws[2].status = "static"
  /\ draws[2].feature = 2 /\ draws[2].themeName = "blueprint"
  /\ \A i \in 1..Len(draws[2].polyDatas) :
       /\ draws[2].polyDatas[i].fillVisible
       /\ DrawnAt(draws[2].polyDatas[i], Num(draws[2].polyDatas[i].totalLength))

(***************************************************************************)
(* Properties of part_000.                                                 *)
(***************************************************************************)
\* the clock is Idle: no handle, no start time, no frame callback pending
Idle(c) ==
  /\ c.animationFrame = NullHandle
  /\ c.startTime = NullTime
  /\ c.pending = {}

\* C10: in every state part_000 reaches, before the first animation
\* included, the cancel step of drawCountry leaves the clock Idle, a second
\* cancel step right after it changes nothing, and whenever drawCountry has
\* returned right after its cancel step (once or twice in a row) the clock
\* is Idle.
C10_CancelIdempotent ==
  LET once == CancelStep(P0Clock)
      twice == CancelStep(once)
  IN  /\ Idle(once)
      /\ twice = once
      /\ cancelOnly > 0 => Idle(P0Clock)

\* drawCountry has returned twice in a row right after its cancel step, the
\* first time while an animation was in flight (its mask is still set)
C10_Witness ==
  /\ cancelOnly = 2
  /\ strokeMask
  /\ nextHandle > 1
  /\ Idle(P0Clock)

(***************************************************************************)
(* Properties of the functions of main.js.                                 *)
(***************************************************************************)
\* the number of segments a ring contributes
RingCount(ring) == IF Len(ring) >= 2 THEN Len(ring) - 1 ELSE 0

\* the number of segments of the rings before ring r
CountBefore(rings, r) ==
  LET Count[q \in 0..Len(rings)] ==
        IF q = 0 THEN 0 ELSE Count[q - 1] + RingCount(rings[q])
  IN  Count[r - 1]

\* the sum of the length fields of the first k segments
PrefixLength(segments, k) ==
  LET Sum[i \in 0..Len(segments)] ==
        IF i = 0 THEN 0 ELSE Sum[i - 1] + segments[i].length
  IN  Sum[k]

\* C11: for every polygon the builder accepts, a ring of n >= 2 points
\* contributes the n - 1 segments between its consecutive projected points
\* and nothing else, a shorter ring contributes none, every length field is
\* the distance between the segment's ends, totalLength is the sum of the
\* length fields, and the closed square of side 10 has totalLength 40.
C11_SegmentsOfRings ==
  call.fn = "buildSegments" /\ ~result.threw =>
    LET rings == call.polyRings
        segs == result.segments
    IN  /\ Len(segs) = CountBefore(rings, Len(rings) + 1)
        /\ \A r \in 1..Len(rings) : \A i \in 1..RingCount(rings[r]) :
             LET seg == segs[CountBefore(rings, r) + i]
                 dx == rings[r][i + 1][1] - rings[r][i][1]
                 dy == rings[r][i + 1][2] - rings[r][i][2]
             IN  /\ seg.start = Projection(rings[r][i])
                 /\ seg.end = Projection(rings[r][i + 1])
                 /\ seg.length >= 0
                 /\ seg.length * seg.length = dx * dx + dy * dy
        /\ result.totalLength = PrefixLength(segs, Len(segs))
        /\ rings = << Rect(0, 0, 10, 10) >> => result.totalLength = 40

\* the closed square of side 10, given as 5 points: 4 segments, length 40
C11_Witness ==
  /\ call.fn = "buildSegments"
  /\ call.polyRings = << Rect(0, 0, 10, 10) >>
  /\ ~result.threw
  /\ Len(result.segments) = 4
  /\ result.totalLength = 40

\* C16: when the projection returns null for a coordinate of a ring, the
\* builder does not throw and hands on no point that is missing.
C16_NullPointSkipped ==
  /\ call.fn = "buildSegments" =>
       /\ ~result.threw
       /\ \A k \in 1..Len(result.segments) :
            result.segments[k].start # NullPoint /\ result.segments[k].end # NullPoint
  /\ call.fn = "processPolygon" =>
       /\ ~result.threw
       /\ \A r \in 1..Len(result.rings) :
            \A i \in 1..Len(result.rings[r].points) :
              result.rings[r].points[i] # NullPoint

\* the positions of the lineTo commands, and the position of the j-th one
LineToPositions(cmds) == {c \in 1..Len(cmds) : cmds[c].op = "lineTo"}

NthLineTo(cmds, j) ==
  CHOOSE c \in LineToPositions(cmds) :
    Cardinality({b \in LineToPositions(cmds) : b <= c}) = j

\* the length stroked on a segment by a lineTo from its start to <<x, y>>,
\* measured along the axis on which the segment extends
StrokedOn(seg, x, y) ==
  IF x = Num(seg.end[1]) /\ y = Num(seg.end[2]) THEN Num(seg.length)
  ELSE IF seg.end[1] # seg.start[1]
  THEN JSDiv(JSMul(Num(seg.length), JSSub(x, Num(seg.start[1]))),
             Num(seg.end[1] - seg.start[1]))
  ELSE JSDiv(JSMul(Num(seg.length), JSSub(y, Num(seg.start[2]))),
             Num(seg.end[2] - seg.start[2]))

\* the total length stroked by the first n lineTo commands
StrokedLength(segments, cmds, n) ==
  LET Sum[j \in 0..n] ==
        IF j = 0 THEN Num(0)
        ELSE JSAdd(Sum[j - 1],
                   StrokedOn(segments[j], cmds[NthLineTo(cmds, j)].x,
                             cmds[NthLineTo(cmds, j)].y))
  IN  Sum[n]

\* C19: drawSegments strokes the segments in list order, one lineTo per
\* segment: a segment is stroked while budget is left before it, to its end
\* when its length fits in what is left, else to the point at the ratio
\* remaining / length, after which nothing is stroked; the stroked length is
\* min(drawLength, sum of the segment lengths).
C19_StrokedInOrder ==
  call.fn = "drawSegments" =>
    LET segs == call.segments
        d == call.drawLength
        cmds == result
        stroked == {j \in 1..Len(segs) : JSLt(Num(PrefixLength(segs, j - 1)), d)}
        total == PrefixLength(segs, Len(segs))
    IN  /\ Cardinality(LineToPositions(cmds)) = Cardinality(stroked)
        /\ \A j \in stroked :
             LET cmd == cmds[NthLineTo(cmds, j)]
                 seg == segs[j]
                 left == JSSub(d, Num(PrefixLength(segs, j - 1)))
             IN  /\ \A i \in 1..(j - 1) : i \in stroked
                 /\ JSGe(left, Num(seg.length)) =>
                      cmd.x = Num(seg.end[1]) /\ cmd.y = Num(seg.end[2])
                 /\ JSLt(left, Num(seg.length)) =>
                      /\ StrokedOn(seg, cmd.x, cmd.y) = left
                      /\ (cmd.x.n - seg.start[1] * cmd.x.d) * (seg.end[2] - seg.start[2]) * cmd.y.d
                           = (cmd.y.n - seg.start[2] * cmd.y.d) * (seg.end[1] - seg.start[1]) * cmd.x.d
                      /\ \A i \in (j + 1)..Len(segs) : i \notin stroked
        /\ StrokedLength(segs, cmds, Cardinality(stroked))
             = MathMin(d, Num(total))

\* the square at draw length 12: the first side to its end, then 2 of the
\* second side
C19_Witness ==
  /\ call.fn = "drawSegments"
  /\ call.polyRings = << Rect(0, 0, 10, 10) >>
  /\ call.drawLength = Num(12)
  /\ result = << MoveTo(<<20, 20>>), LineTo(Num(30), Num(20)),
                 LineTo(Num(30), Num(22)) >>

\* the segments that start a ring, from the rings
RingStarts(rings) ==
  {CountBefore(rings, r) + 1 : r \in {q \in 1..Len(rings) : RingCount(rings[q]) > 0}}

\* the ring a segment belongs to
RingOf(rings, j) ==
  CHOOSE r \in 1..Len(rings) :
    CountBefore(rings, r) < j /\ j <= CountBefore(rings, r) + RingCount(rings[r])

\* C20: exactly the first segment of every ring carries the moveTo flag, and
\* for every draw length every lineTo of drawSegments starts at the start of
\* the segment it strokes, reached by the moveTo of that ring or by the
\* lineTo of the segment before it in the same ring: no lineTo joins two
\* rings.
C20_RingsNotJoined ==
  /\ call.fn = "buildSegments" /\ ~result.threw =>
       \A k \in 1..Len(result.segments) :
         result.segments[k].moveTo <=> k \in RingStarts(call.polyRings)
  /\ call.fn = "drawSegments" =>
       LET segs == call.segments
           cmds == result
       IN  \A j \in 1..Cardinality(LineToPositions(cmds)) :
             LET c == NthLineTo(cmds, j)
             IN  /\ c > 1
                 /\ cmds[c - 1].x = Num(segs[j].start[1])
                 /\ cmds[c - 1].y = Num(segs[j].start[2])
                 /\ cmds[c - 1].op = "moveTo" <=> j \in RingStarts(call.polyRings)
                 /\ cmds[c - 1].op = "lineTo" =>
                      RingOf(call.polyRings, j) = RingOf(call.polyRings, j - 1)

\* the mainland with its hole at draw length 70: the outer ring in full, a
\* moveTo to the hole, 10 of the hole's first side
C20_Witness ==
  /\ call.fn = "drawSegments"
  /\ Len(call.polyRings) = 2
  /\ call.drawLength = Num(70)
  /\ Len(result) = 7
  /\ result[6] = MoveTo(<<22, 22>>)
  /\ result[7] = LineTo(Num(32), Num(22))

\* the name and the ISO code of a feature: the first field that is present
NameSeen(props) ==
  IF props.name # "" THEN props.name
  ELSE IF props.NAME # "" THEN props.NAME
  ELSE IF props.name_long # "" THEN props.name_long
  ELSE props.NAME_LONG

IsoSeen(props) ==
  IF props.iso_a3 # "" THEN props.iso_a3
  ELSE IF props.adm0_a3 # "" THEN props.adm0_a3
  ELSE props.ADM0_A3

\* the USA rule and the Russia rule, on any spelling of the code or name
MatchesUsa(props) ==
  \/ IsoSeen(props) \in {"usa", "USA"}
  \/ NameSeen(props) \in {"United States", "UNITED STATES OF AMERICA"}

MatchesRussia(props) ==
  \/ IsoSeen(props) \in {"rus", "RUS"}
  \/ NameSeen(props) \in {"Russia", "Russian Federation"}

\* C12: a feature that matches the USA rule gets the composite projection,
\* also when it matches the Russia rule; otherwise a feature that matches
\* the Russia rule gets the default projection rotated to minus its
\* longitude midpoint; every other feature gets the unrotated default; and
\* when the selection throws (a name that is not a string) the unrotated
\* default is selected.
C12_ProjectionPriority ==
  call.fn = "projection" =>
    LET props == call.props
        threw == NameSeen(props) = NumberValue
    IN  /\ threw => result = [projectionType |-> "equalEarth", rotate |-> Num(0)]
        /\ ~threw /\ MatchesUsa(props) =>
             result = [projectionType |-> "albersUsa", rotate |-> Num(0)]
        /\ ~threw /\ ~MatchesUsa(props) /\ MatchesRussia(props) =>
             /\ result.projectionType = "equalEarthRotated"
             /\ JSAdd(result.rotate, Midpoint(call.bounds[1], call.bounds[2])) = Num(0)
        /\ ~threw /\ ~MatchesUsa(props) /\ ~MatchesRussia(props) =>
             result = [projectionType |-> "equalEarth", rotate |-> Num(0)]

\* a feature with the code of Russia and a name of the USA gets the
\* composite projection
C12_Witness ==
  /\ call.fn = "projection"
  /\ call.props.iso_a3 = "RUS"
  /\ call.props.name = "United States"
  /\ result.projectionType = "albersUsa"

\* a number of the model as a multiple of 1/2, doubled
Doubled(a) == (2 * a.n) \div a.d

\* C13: for minLon and maxLon in [-180,180] the midpoint lies in
\* [-180,180]; for maxLon < minLon it equals the average of minLon and
\* maxLon + 360 up to a full turn, and for maxLon >= minLon it is the plain
\* average.
C13_MidpointWrapped ==
  call.fn = "midpoint" =>
    /\ IsNum(result)
    /\ result.d \in {1, 2}
    /\ -360 <= Doubled(result) /\ Doubled(result) <= 360
    /\ call.maxLon < call.minLon =>
         Doubled(result) \in {call.minLon + call.maxLon + 360,
                              call.minLon + call.maxLon - 360}
    /\ call.maxLon >= call.minLon =>
         Doubled(result) = call.minLon + call.maxLon

\* minLon = 170, maxLon = -170 gives 180
C13_Witness ==
  /\ call.fn = "midpoint"
  /\ call.minLon = 170 /\ call.maxLon = -170
  /\ result = Num(180)

\* one box's max is strictly less than the other's min on the axis i
Separated(bboxA, bboxB, i) ==
  bboxA[2][i] < bboxB[1][i] \/ bboxB[2][i] < bboxA[1][i]

\* C14: intersects returns false exactly when the boxes are separated on
\* the longitude or the latitude axis (touching boxes intersect), and the
\* result is the same with the arguments swapped.
C14_IntersectsSymmetric ==
  call.fn = "intersects" =>
    /\ result = ~(\E i \in {1, 2} : Separated(call.bboxA, call.bboxB, i))
    /\ result = Intersects(call.bboxB, call.bboxA)

\* two boxes that share only a corner intersect
C14_Witness ==
  /\ call.fn = "intersects"
  /\ call.bboxA = << <<0, 0>>, <<1, 1>> >>
  /\ call.bboxB = << <<1, 1>>, <<2, 2>> >>
  /\ result = TRUE

\* the disputed lines whose box is separated from the box of feature f on
\* neither axis
OverlappingLines(f) ==
  {i \in 1..Len(PrecomputedDisputed) :
     ~\E a \in {1, 2} : Separated(CountryFeatures[f].bbox,
                                  PrecomputedDisputed[i].bbox, a)}

\* the stage as the newest drawCountry call left it: its country container,
\* and above it its overlay of the lines that overlap its feature, if any
StageAsBuilt ==
  IF draws = << >> THEN stage = << >>
  ELSE LET d == Len(draws)
           lines == OverlappingLines(draws[d].feature)
       IN  /\ stage[1] = [kind |-> "country", draw |-> d, lines |-> {}]
           /\ lines = {} => Len(stage) = 1
           /\ lines # {} =>
                /\ Len(stage) = 2
                /\ stage[2] = [kind |-> "disputed", draw |-> d,
                               lines |-> lines]

\* C15: the disputed overlay is built by the drawCountry call, with all the
\* lines that overlap the feature, above the country container; a step
\* without a drawCountry call (a frame, the clock) leaves it as it is, and
\* a new draw replaces it by the overlay computed for its own feature.
C15_OverlayBuiltOnce ==
  [][/\ StageAsBuilt'
     /\ Len(draws') = Len(draws) => stage' = stage]_vars

\* the second draw animated to its end under the overlay it built
C15_Witness ==
  /\ Len(draws) = 2
  /\ draws[2].status = "completed"
  /\ Len(stage) = 2
  /\ stage[2].kind = "disputed" /\ stage[2].draw = 2

\* the segments of the polygons that drawCountry retains, in order
RECURSIVE RetainedSegments(_)
RetainedSegments(polys) ==
  IF polys = << >> THEN << >>
  ELSE LET segments == FlattenSegments(ProjRings(Head(polys)))
       IN  (IF Len(segments) = 0 THEN << >> ELSE << segments >>)
           \o RetainedSegments(Tail(polys))

\* the segments of the retained polygons of every feature
FeatureSegments ==
  [f \in FeatureIds |-> RetainedSegments(Polys(CountryFeatures[f]))]

\* the lineTo commands a frame issues on a graphics drawn to drawLength
LineTosDrawn(segments, drawLength) ==
  IF drawLength = NotDrawn THEN {}
  ELSE LineToPositions(DrawSegments(segments, drawLength))

\* C17: in every frame of a displayed draw a part of total length zero gets
\* no lineTo on its line and on its glow, a part without segments is not
\* retained, and a feature all of whose parts have length zero is rendered
\* at progress 1 with no tick, whatever the animate setting.
C17_DegenerateGeometry ==
  \A d \in 1..Len(draws) :
    Live(d) =>
      LET dr == draws[d]
          segs == FeatureSegments[dr.feature]
      IN  /\ Len(dr.polyDatas) = Len(segs)
          /\ \A i \in 1..Len(dr.polyDatas) :
               dr.polyDatas[i].totalLength = 0 =>
                 /\ LineTosDrawn(segs[i], dr.polyDatas[i].lineGraphics) = {}
                 /\ LineTosDrawn(segs[i], dr.polyDatas[i].glowGraphics) = {}
          /\ dr.maxTotalLength = 0 =>
               dr.status = "static" /\ dr.progress = Num(1)

\* the displayed feature is fitted to another extent than the viewport's
StaleFit == currentFeature # NoFeature /\ fitExtent # FitExtent(viewport)

\* C18: whenever the displayed feature is fitted to a stale viewport, a
\* rebuild against the present viewport follows.
C18_RebuiltOnResize == [](StaleFit => <>~StaleFit)

\* the commands a frame issues on a graphics drawn to drawLength
CommandsDrawn(segments, drawLength) ==
  IF drawLength = NotDrawn THEN << >> ELSE DrawSegments(segments, drawLength)

\* C21: a render at progress exactly 0 issues no lineTo on the line and on
\* the glow of any part: every path command of the frame is a moveTo.
C21_NothingAtZero ==
  \A d \in 1..Len(draws) :
    Live(d) /\ draws[d].progress = Num(0) =>
      LET dr == draws[d]
          segs == FeatureSegments[dr.feature]
      IN  \A i \in 1..Len(dr.polyDatas) :
            \A cmds \in {CommandsDrawn(segs[i], dr.polyDatas[i].lineGraphics),
                         CommandsDrawn(segs[i], dr.polyDatas[i].glowGraphics)} :
              \A c \in 1..Len(cmds) : cmds[c].op = "moveTo"

\* the first frame of an animated draw of the feature of several parts: its
\* mainland gets the moveTo of its first ring and nothing else
C21_Witness ==
  \E d \in 1..Len(draws) :
    /\ Live(d)
    /\ draws[d].feature = 2
    /\ draws[d].status = "running"
    /\ draws[d].progress = Num(0)
    /\ Len(CommandsDrawn(FeatureSegments[2][1],
                         draws[d].polyDatas[1].lineGraphics)) = 1

\* the commands stroke every segment of the list to its end
StrokesAll(segments, cmds) ==
  /\ Cardinality(LineToPositions(cmds)) = Len(segments)
  /\ \A j \in 1..Len(segments) :
       /\ cmds[NthLineTo(cmds, j)].x = Num(segments[j].end[1])
       /\ cmds[NthLineTo(cmds, j)].y = Num(segments[j].end[2])

\* C22: after every render the fill of a part that has one is visible
\* exactly when the draw length of the part, min(maxTotalLength * progress,
\* totalLength), is a number not below its totalLength; a visible fill
\* lies under an outline stroked to the end of every segment (or of length
\* zero), and a part without fill never shows one.
C22_FillWhenComplete ==
  \A d \in 1..Len(draws) :
    Live(d) =>
      LET dr == draws[d]
          segs == FeatureSegments[dr.feature]
      IN  \A i \in 1..Len(dr.polyDatas) :
            LET pd == dr.polyDatas[i]
                len == ExpectedLength(dr.maxTotalLength, dr.progress,
                                      pd.totalLength)
                reached == IsNum(len) /\ len.n >= pd.totalLength * len.d
            IN  /\ pd.hasFill => (pd.fillVisible <=> reached)
                /\ ~pd.hasFill => ~pd.fillVisible
                /\ pd.fillVisible =>
                     \/ pd.totalLength = 0
                     \/ StrokesAll(segs[i], CommandsDrawn(segs[i], pd.lineGraphics))

\* half way through the blueprint draw of the feature of several parts the
\* island of length 30 shows its fill and the mainland of length 100 does not
C22_Witness ==
  \E d \in 1..Len(draws) :
    /\ Live(d)
    /\ draws[d].feature = 2
    /\ draws[d].themeName = "blueprint"
    /\ draws[d].progress = Rat(1, 2)
    /\ draws[d].polyDatas[2].fillVisible
    /\ ~draws[d].polyDatas[1].fillVisible

\* C23: for the same feature, theme and progress in [0,1] the fill of a
\* part is visible in the Pixi renderer exactly when the SVG fallback
\* renderer shows it, the transition of the fallback having ended exactly
\* at progress 1.
C23_SameFillPolicy ==
  \A d \in 1..Len(draws) :
    Live(d) /\ InUnit(draws[d].progress) =>
      \A i \in 1..Len(draws[d].polyDatas) :
        LET pd == draws[d].polyDatas[i]
        IN  pd.hasFill =>
              pd.fillVisible =
                FallbackFillVisible(draws[d].animate, draws[d].maxTotalLength,
                                    pd.totalLength, draws[d].progress = Num(1))

\* the largest ring length among the rings
LargestRing(rings) == SetMax({rings[r].length : r \in 1..Len(rings)})

\* C24: at a progress p that is a number, animateFrame reveals of every
\* ring the length min(p * (largest ring length), ring.length).
C24_SharedRingMapping ==
  call.fn = "animateFrameMask" /\ IsNum(call.progress) =>
    \A r \in 1..Len(call.rings) :
      result[r].drawLen =
        MathMin(JSMul(call.progress, Num(LargestRing(call.rings))),
                Num(call.rings[r].length))

\* C25: the progress every invocation of animateFrame computes, the one
\* drawCountry makes itself included, is a number in [0,1].
C25_FrameProgressInUnit == maskProgress = NotDrawn \/ InUnit(maskProgress)

\* C26: at most one animation frame callback is pending, state.animationFrame
\* is null whenever none is pending and names the pending one otherwise, and
\* after the frame that reached progress 1 none is pending.
C26_OneFramePending ==
  /\ Cardinality(pendingFrames) <= 1
  /\ pendingFrames = {} => animationFrame = NullHandle
  /\ pendingFrames # {} => pendingFrames = {animationFrame}
  /\ JSGe(maskProgress, Num(1)) => pendingFrames = {}

\* several frames were requested and the last one ran to progress 1
C26_Witness ==
  /\ stateFeature # ""
  /\ nextHandle > 3
  /\ maskProgress = Num(1)
  /\ pendingFrames = {}
  /\ animationFrame = NullHandle

\* C30: while the stroke is still masked (the outline is revealed in part)
\* a frame callback is pending.
C30_NeverFrozen == strokeMask => pendingFrames # {}

\* C27: for a feature whose box crosses the antimeridian (minLon > maxLon)
\* the filter keeps every disputed entry whose longitudes lie inside the
\* wrapped span of the feature and whose latitudes overlap the feature's.
C27_AntimeridianKept ==
  call.fn = "drawDisputedLines"
  /\ call.featureBbox[1][1] > call.featureBbox[2][1] =>
    \A i \in 1..Len(PrecomputedDisputed) :
      LET b == PrecomputedDisputed[i].bbox
          minLon == call.featureBbox[1][1]
          maxLon == call.featureBbox[2][1]
      IN  /\ b[1][1] <= b[2][1]
          /\ b[1][1] >= minLon \/ b[2][1] <= maxLon
          /\ ~Separated(call.featureBbox, b, 2)
          => i \in result

\* the arc length travelled between two commands on an axis-parallel path
CmdDist(a, b) == Abs(b.x.n - a.x.n) + Abs(b.y.n - a.y.n)

\* the arc length at which command c ends
ArcAt(cmds, c) ==
  LET Sum[j \in 1..Len(cmds)] ==
        IF j = 1 THEN 0 ELSE Sum[j - 1] + CmdDist(cmds[j - 1], cmds[j])
  IN  Sum[c]

\* the length of the polyline up to its point k
PathPrefix(points, k) ==
  LET Sum[j \in 1..Len(points)] ==
        IF j = 1 THEN 0
        ELSE Sum[j - 1] + Abs(points[j][1] - points[j - 1][1])
                        + Abs(points[j][2] - points[j - 1][2])
  IN  Sum[k]

\* whether pt lies on the polyline at the arc length a
OnPathAt(points, a, pt) ==
  \/ Len(points) = 1 /\ a = 0 /\ pt = points[1]
  \/ \E i \in 1..(Len(points) - 1) :
       LET from == points[i]
           to == points[i + 1]
           off == a - PathPrefix(points, i)
           len == PathPrefix(points, i + 1) - PathPrefix(points, i)
       IN  /\ 0 <= off /\ off <= len
           /\ len = 0 => pt = from
           /\ len > 0 =>
                pt = << from[1] + ((to[1] - from[1]) \div len) * off,
                        from[2] + ((to[2] - from[2]) \div len) * off >>

\* C28: drawDashed with the pattern [4,3] walks the whole polyline from its
\* first point, every command ending on the path at the arc length
\* travelled so far, and the unit intervals [n, n+1) it strokes are exactly
\* those with n mod 7 < 4 below the path length: the dash phase runs on
\* over the vertices.
C28_DashedByArcLength ==
  call.fn = "drawDashed" =>
    LET points == call.points
        cmds == result
        total == PathPrefix(points, Len(points))
        stroked == UNION {ArcAt(cmds, c - 1)..(ArcAt(cmds, c) - 1) :
                            c \in LineToPositions(cmds)}
    IN  /\ cmds[1] = MoveTo(points[1])
        /\ \A c \in 1..Len(cmds) :
             /\ cmds[c].x.d = 1 /\ cmds[c].y.d = 1
             /\ OnPathAt(points, ArcAt(cmds, c), <<cmds[c].x.n, cmds[c].y.n>>)
        /\ ArcAt(cmds, Len(cmds)) = total
        /\ stroked = {n \in 0..(total - 1) : n % 7 < 4}

\* a line of 5 then 9 units: the second dash starts at arc length 7, two
\* units after the vertex, and the third at 14
C28_Witness ==
  /\ call.fn = "drawDashed"
  /\ call.points = << <<0, 0>>, <<5, 0>>, <<5, 9>> >>
  /\ \E c \in LineToPositions(result) : ArcAt(result, c - 1) = 7
  /\ ArcAt(result, Len(result)) = 14

\* what the render of the own tick of the draw dr makes of its graphics
OwnTickRender(dr) ==
  IF dr.status = "running"
  THEN Render(dr.polyDatas, dr.maxTotalLength, THEMES[dr.themeName],
              TickProgress(dr.elapsed, dr.durationMs))
  ELSE dr.polyDatas

\* C29: in a step without a drawCountry call the containers on the stage
\* stay those of the latest draw, the graphics of the latest draw are left
\* as they are or become what the render of its own tick draws, whatever
\* the ticks of superseded draws do, and the record of a superseded draw
\* changes only while its own tick is registered.
C29_StaleTicksDetached ==
  [][Len(draws') = Len(draws) /\ Len(draws) > 0 =>
       LET n == Len(draws)
       IN  /\ \A k \in 1..Len(stage') : stage'[k].draw = n
           /\ draws'[n].polyDatas \in {draws[n].polyDatas, OwnTickRender(draws[n])}
           /\ \A d \in 1..(n - 1) :
                draws'[d] # draws[d] => draws[d].status = "running"]_vars

\* the tick of a superseded draw has rendered a progress of its own while
\* the latest draw, still running, shows another
C29_Witness ==
  /\ Len(draws) = 2
  /\ Live(1) /\ draws[1].status = "running"
  /\ draws[1].progress # Num(0)
  /\ draws[2].status = "running"
  /\ draws[2].progress # draws[1].progress
  /\ draws[2].polyDatas # draws[1].polyDatas

====
